---- MODULE Spec2Model ----
(***************************************************************************)
(* Model of src/src/FileSystem.js: the Path value class and the            *)
(* asynchronous directory-tree walker FS.tree with its queries.            *)
(*                                                                         *)
(* Strings are sequences of one-character strings, so that path joining,   *)
(* resolution, prefix tests and the pattern substitution of relativeTo are *)
(* computed character by character (POSIX flavour of Node's path module).  *)
(***************************************************************************)
EXTENDS Naturals, Sequences, FiniteSets, TLC

VARIABLES
  cwd,      \* process.cwd(), the directory relative paths resolve against
  pa,       \* Path instance `this`: its _path string
  pb,       \* Path instance passed as argument: its _path string
  pOut,     \* what the last Path operation returned
  fs,       \* Storage: the entries that exist, each a directory or a file
  heap,     \* the Path instances alive: reference -> _path string
  callers,  \* the FS.tree calls the caller makes
  call,     \* per FS.tree call: its promise, its nodes, its pending awaits
  faults,   \* Storage operations made to fail so far
  q         \* per FS.tree call: what the tree queries returned

pathVars == <<cwd, pa, pb, pOut>>
treeVars == <<fs, heap, callers, call, faults, q>>
vars == <<cwd, pa, pb, pOut, fs, heap, callers, call, faults, q>>

-----------------------------------------------------------------------------
(* Bounds *)

\* longest raw path string drawn for the Path operations
MaxLen == 3
\* deepest entry below the root of the walked directory
MaxDepth == 2
\* most entries (files plus directories) below the root
MaxEntries == 3
\* most Storage operations made to fail in one run
MaxFaults == 1
\* most entries below the root when two FS.tree calls run side by side
MaxSharedEntries == 1
\* longest _path the caller's own Path instance is grown to
MaxArgLen == 4
\* most entries below the root when the caller composes on returned paths
MaxComposeEntries == 1
\* longest _path a returned Path instance is grown to
MaxCloneLen == 4

-----------------------------------------------------------------------------
(* Strings *)

Sep == "/"
BSep == "\\"
Dot == "."

Alphabet == {Sep, "a", "b", Dot}

RECURSIVE StrsOfLen(_)
StrsOfLen(n) ==
  IF n = 0 THEN {<<>>}
  ELSE {Append(s, ch) : s \in StrsOfLen(n - 1), ch \in Alphabet}

Strs == UNION {StrsOfLen(n) : n \in 0..MaxLen}

Last(s) == s[Len(s)]
Front(s) == SubSeq(s, 1, Len(s) - 1)

\* String.prototype.startsWith
StartsWith(s, pre) ==
  Len(pre) <= Len(s) /\ SubSeq(s, 1, Len(pre)) = pre

\* the segments between separators, empty ones included
RECURSIVE Segments(_)
Segments(s) ==
  IF s = <<>> THEN << <<>> >>
  ELSE LET rest == Segments(Tail(s)) IN
       IF Head(s) = Sep THEN << <<>> >> \o rest
       ELSE << <<Head(s)>> \o Head(rest) >> \o Tail(rest)

RECURSIVE JoinSegs(_)
JoinSegs(segs) ==
  IF segs = <<>> THEN <<>>
  ELSE IF Len(segs) = 1 THEN Head(segs)
  ELSE Head(segs) \o <<Sep>> \o JoinSegs(Tail(segs))

\* Node's normalizeString: drops empty and "." segments, resolves ".."
RECURSIVE NormSegs(_, _, _)
NormSegs(segs, acc, allowAboveRoot) ==
  IF segs = <<>> THEN acc
  ELSE LET g == Head(segs) IN
       IF g = <<>> \/ g = <<Dot>>
         THEN NormSegs(Tail(segs), acc, allowAboveRoot)
       ELSE IF g = <<Dot, Dot>>
         THEN IF acc # <<>> /\ Last(acc) # <<Dot, Dot>>
                THEN NormSegs(Tail(segs), Front(acc), allowAboveRoot)
              ELSE IF allowAboveRoot
                THEN NormSegs(Tail(segs), Append(acc, g), allowAboveRoot)
              ELSE NormSegs(Tail(segs), acc, allowAboveRoot)
       ELSE NormSegs(Tail(segs), Append(acc, g), allowAboveRoot)

NormalizeString(s, allowAboveRoot) ==
  JoinSegs(NormSegs(Segments(s), <<>>, allowAboveRoot))

IsAbsolute(s) == s # <<>> /\ Head(s) = Sep

\* npath.normalize
Normalize(s) ==
  IF s = <<>> THEN <<Dot>>
  ELSE LET abs == IsAbsolute(s)
           trail == Last(s) = Sep
           n == NormalizeString(s, ~abs)
       IN IF n = <<>>
            THEN IF abs THEN <<Sep>>
                 ELSE IF trail THEN <<Dot, Sep>> ELSE <<Dot>>
          ELSE LET m == IF trail THEN Append(n, Sep) ELSE n
               IN IF abs THEN <<Sep>> \o m ELSE m

\* npath.join of two operands
NJoin(a, b) ==
  IF a = <<>> /\ b = <<>> THEN <<Dot>>
  ELSE IF a = <<>> THEN Normalize(b)
  ELSE IF b = <<>> THEN Normalize(a)
  ELSE Normalize(a \o <<Sep>> \o b)

\* npath.resolve of one operand against the working directory wd
NResolve(s, wd) ==
  LET full == IF IsAbsolute(s) THEN s
              ELSE IF s = <<>> THEN wd
              ELSE wd \o <<Sep>> \o s
  IN <<Sep>> \o NormalizeString(full, FALSE)

-----------------------------------------------------------------------------
(* class Path *)

\* get absolute
Absolute(p, wd) == NResolve(p, wd)

\* Path.inside
Inside(this, other, wd) ==
  LET iAbs == Absolute(other, wd)
      tAbs == Absolute(this, wd)
  IN StartsWith(tAbs, Append(iAbs, Sep)) \/ StartsWith(tAbs, Append(iAbs, BSep))

\* Path.is
Is(this, other, wd) == Absolute(this, wd) = Absolute(other, wd)

\* one pattern character of the RegExp built from a path string against one
\* character of the subject: "." matches any character, the rest themselves
PatCharMatches(pc, ch) == pc = Dot \/ pc = ch

\* whether the pattern  <pat>[/\\]  matches the subject s at position i
MatchesAt(pat, s, i) ==
  /\ i + Len(pat) <= Len(s)
  /\ \A k \in 1..Len(pat) : PatCharMatches(pat[k], s[i + k - 1])
  /\ s[i + Len(pat)] \in {Sep, BSep}

\* String.prototype.replace(new RegExp(pat + "[/\\\\]"), ""): the leftmost
\* match is removed, wherever it starts
ReplaceFirst(pat, s) ==
  LET hits == {i \in 1..Len(s) : MatchesAt(pat, s, i)} IN
  IF hits = {} THEN s
  ELSE LET i == CHOOSE j \in hits : \A k \in hits : j <= k
       IN SubSeq(s, 1, i - 1) \o SubSeq(s, i + Len(pat) + 1, Len(s))

\* Path.relativeTo: the _path of the Path it returns
RelativeTo(this, other, wd) ==
  ReplaceFirst(Absolute(other, wd), Absolute(this, wd))

-----------------------------------------------------------------------------
(* Path operations as steps *)

NoOut == [op |-> "none"]

Cwds == {<<Sep>>, <<Sep, "a">>}

InitPath ==
  /\ cwd \in Cwds
  /\ pa \in Strs
  /\ pb \in Strs
  /\ pOut = NoOut
  /\ fs = <<>>
  /\ heap = <<>>
  /\ callers = {}
  /\ call = <<>>
  /\ faults = 0
  /\ q = <<>>

PathInside ==
  /\ pOut' = [op |-> "inside", val |-> Inside(pa, pb, cwd)]
  /\ UNCHANGED <<cwd, pa, pb>>
  /\ UNCHANGED treeVars

PathIs ==
  /\ pOut' = [op |-> "is", val |-> Is(pa, pb, cwd)]
  /\ UNCHANGED <<cwd, pa, pb>>
  /\ UNCHANGED treeVars

PathRelativeTo ==
  /\ pOut' = [op |-> "relativeTo", val |-> RelativeTo(pa, pb, cwd)]
  /\ UNCHANGED <<cwd, pa, pb>>
  /\ UNCHANGED treeVars

NextPath == PathInside \/ PathIs \/ PathRelativeTo

SpecPath == InitPath /\ [][NextPath]_vars

-----------------------------------------------------------------------------
(* Storage: the directory subtree that FS.tree walks.  An entry is named   *)
(* by the sequence of names leading to it from the walked root (<<>>).     *)

Names == {<<"x">>, <<"y">>}

\* the walked root as an absolute path, and the strings a caller names it by
RootAbs == <<Sep, "r">>
RootStrs == {<<Sep, "r">>, <<"r">>}

Candidates == UNION {[1..d -> Names] : d \in 1..MaxDepth}

Shapes ==
  {S \in SUBSET Candidates :
     /\ Cardinality(S) <= MaxEntries
     /\ \A e \in S : Len(e) > 1 => Front(e) \in S}

NoFs == [e \in {} |-> "file"]

FileSystems ==
  {NoFs} \cup
  {f \in UNION {[S \cup {<<>>} -> {"dir", "file"}] : S \in Shapes} :
     \A e \in DOMAIN f : e # <<>> => f[Front(e)] = "dir"}

RECURSIVE EntryAbs(_)
EntryAbs(e) ==
  IF e = <<>> THEN RootAbs
  ELSE EntryAbs(Front(e)) \o <<Sep>> \o Last(e)

\* the entries Storage finds at an absolute path (none or one)
Lookup(abs) == {e \in DOMAIN fs : EntryAbs(e) = abs}

Exists(abs) == Lookup(abs) # {}

KindAt(abs) == fs[CHOOSE e \in Lookup(abs) : TRUE]

ChildNames(abs) ==
  LET d == CHOOSE e \in Lookup(abs) : TRUE
  IN {Last(e) : e \in {x \in DOMAIN fs : x # <<>> /\ Front(x) = d}}

\* the orders in which nfs.readdir may return a directory's names
Listings(S) ==
  {l \in [1..Cardinality(S) -> S] : \A i, j \in 1..Cardinality(S) : l[i] = l[j] => i = j}

-----------------------------------------------------------------------------
(* Path instances and errors *)

ArgRef == [own |-> 0, kind |-> "arg", id |-> <<>>]
NodeRef(c, n) == [own |-> c, kind |-> "node", id |-> n]
CloneRefAliased(c, fn, n) == NodeRef(c, n)
CloneRef(c, fn, n) == [own |-> c, kind |-> fn, id |-> n]

NoErr == [type |-> "none", path |-> <<>>]
\* FS.stat: "... does not exist or is not accessible by this user."
NotAccessible(abs) == [type |-> "NotAccessible", path |-> abs]
\* FS.ls: "You can not perform an 'ls' on a non-directory path"
NotADirectory(abs) == [type |-> "NotADirectory", path |-> abs]
\* the rejection of nfs.stat itself
StatError(abs) == [type |-> "StatError", path |-> abs]
\* the rejection of nfs.readdir
ReaddirError(abs) == [type |-> "ReaddirError", path |-> abs]

-----------------------------------------------------------------------------
(* One FS.tree call.  nodes: the node objects built so far, by position;   *)
(* frames: the _resolveChildren invocations on directories; ops: the       *)
(* Storage operations outstanding; listed: what readdir returned, and      *)
(* fails: the Storage operations that failed, in order (both history)      *)

Calls == {1, 2}

IdleCall ==
  [st |-> "idle", err |-> NoErr, rootRef |-> ArgRef,
   nodes |-> <<>>, frames |-> <<>>, ops |-> {}, listed |-> <<>>, fails |-> <<>>,
   issued |-> <<>>]

NewNode(ref, isDirectory) ==
  [path |-> ref, isDirectory |-> isDirectory, hasChildren |-> FALSE, children |-> <<>>]

NewFrame ==
  [ph |-> "ls", kids |-> <<>>, stats |-> <<>>, done |-> <<>>,
   childNodes |-> <<>>, rec |-> {}]

Op(kind, why, n, nm, abs) ==
  [kind |-> kind, why |-> why, node |-> n, name |-> nm, abs |-> abs]

\* the Storage operations new are started by call K; issued counts, per kind
\* and absolute path, the operations the call has started so far
Issue(K, new) ==
  [K EXCEPT
     !.ops = @ \cup new,
     !.issued = [k \in DOMAIN @ \cup {<<o.kind, o.abs>> : o \in new} |->
                   (IF k \in DOMAIN @ THEN @[k] ELSE 0)
                     + Cardinality({o \in new : <<o.kind, o.abs>> = k})]]

\* node.children = childNodes
AttachChildren(K, n) ==
  [K EXCEPT !.nodes[n].children = K.frames[n].childNodes,
            !.nodes[n].hasChildren = TRUE]

\* the promise of _resolveChildren(node n) fulfils; the awaits above it go on
RECURSIVE ResolveFrame(_, _)
ResolveFrameEager(K, n) ==
  LET K1 == [K EXCEPT !.frames[n].ph = "resolved"] IN
  IF n = <<>> THEN [K1 EXCEPT !.st = "fulfilled"]
  ELSE LET p == Front(n)
           K2 == [K1 EXCEPT !.frames[p].rec = @ \ {Last(n)}]
       IN IF K2.frames[p].ph = "recurse"
            THEN ResolveFrame(AttachChildren(K2, p), p)
          ELSE K2
ResolveFrame(K, n) ==
  LET K1 == [K EXCEPT !.frames[n].ph = "resolved"] IN
  IF n = <<>> THEN [K1 EXCEPT !.st = "fulfilled"]
  ELSE LET p == Front(n)
           K2 == [K1 EXCEPT !.frames[p].rec = @ \ {Last(n)}]
       IN IF K2.frames[p].ph = "recurse" /\ K2.frames[p].rec = {}
            THEN ResolveFrame(AttachChildren(K2, p), p)
          ELSE K2

\* the promise of _resolveChildren(node n) rejects with e; Promise.all of the
\* parent rejects with the first rejection it sees
RECURSIVE RejectFrame(_, _, _)
RejectFrameSettled(K, n, e) ==
  IF n = <<>> THEN [K EXCEPT !.frames[n].ph = "rejected", !.st = "rejected", !.err = e]
  ELSE ResolveFrame(K, n)
RejectFrameLocal(K, n, e) ==
  LET K1 == [K EXCEPT !.frames[n].ph = "rejected"] IN
  IF n = <<>> THEN [K1 EXCEPT !.st = "rejected", !.err = e] ELSE K1
RejectFrame(K, n, e) ==
  LET K1 == [K EXCEPT !.frames[n].ph = "rejected"] IN
  IF n = <<>> THEN [K1 EXCEPT !.st = "rejected", !.err = e]
  ELSE IF K1.frames[Front(n)].ph = "recurse"
    THEN RejectFrame(K1, Front(n), e)
  ELSE K1

\* the test at the recursion site: the parent's flag
RecurseGuardNegated(parentIsDirectory, childIsDirectory) == ~childIsDirectory
RecurseGuard(parentIsDirectory, childIsDirectory) == parentIsDirectory

\* if (!isDirectory) return;  with isDirectory = node.isDirectory
ReturnsAtOnceNever(node) == FALSE
ReturnsAtOnce(node) == ~node.isDirectory

\* _resolveChildren entered for the nodes ids: a non-directory returns at
\* once, a directory calls FS.ls, whose FS.stat starts with the access check
StartResolve(K, ids) ==
  LET D == {n \in ids : ~ReturnsAtOnce(K.nodes[n])} IN
  Issue([K EXCEPT !.frames = [n \in D |-> NewFrame] @@ @],
        {Op("access", "ls", n, <<>>, Absolute(heap[K.nodes[n].path], cwd)) : n \in D})

\* the order of the child nodes: that of the listing
ChildOrderByCompletion(kids, done) == done
ChildOrder(kids, done) == kids

\* after Promise.all(childrenStatPromises): the loop building the child nodes
\* and starting the recursions, then Promise.all(recursePromises)
StatsDone(K, c, n) ==
  LET f == K.frames[n]
      order == ChildOrder(f.kids, f.done)
      ids == [i \in 1..Len(order) |-> Append(n, order[i])]
      idSet == {ids[i] : i \in 1..Len(ids)}
      K1 == [K EXCEPT
               !.nodes = [id \in idSet |-> NewNode(NodeRef(c, id), f.stats[Last(id)] = "dir")] @@ @,
               !.frames[n].childNodes = ids]
      started == {id \in idSet : RecurseGuard(K.nodes[n].isDirectory, K1.nodes[id].isDirectory)}
      K2 == StartResolve(K1, started)
      rec == {Last(id) : id \in {x \in started : ~ReturnsAtOnce(K1.nodes[x])}}
  IN IF rec = {}
       THEN ResolveFrame(AttachChildren(K2, n), n)
     ELSE [K2 EXCEPT !.frames[n].ph = "recurse", !.frames[n].rec = rec]

\* the FS.stat (or nfs.readdir) that op belongs to rejects with e
FailOpChildIgnored(K, op, e) ==
  CASE op.why = "tree" -> [K EXCEPT !.st = "rejected", !.err = e]
    [] op.why = "ls" -> RejectFrame(K, op.node, e)
    [] op.why = "child" -> K
FailOpChildSettled(K, op, e) ==
  CASE op.why = "tree" -> [K EXCEPT !.st = "rejected", !.err = e]
    [] op.why = "ls" -> RejectFrame(K, op.node, e)
    [] op.why = "child" ->
         IF K.frames[op.node].ph # "stats" THEN K
         ELSE LET K1 == [K EXCEPT
                           !.frames[op.node].stats = (op.name :> "file") @@ @,
                           !.frames[op.node].done = Append(@, op.name)]
              IN IF Len(K1.frames[op.node].done) = Len(K1.frames[op.node].kids)
                   THEN StatsDone(K1, CHOOSE c \in callers : TRUE, op.node)
                 ELSE K1
FailOp(K, op, e) ==
  CASE op.why = "tree" -> [K EXCEPT !.st = "rejected", !.err = e]
    [] op.why = "ls" -> RejectFrame(K, op.node, e)
    [] op.why = "child" ->
         IF K.frames[op.node].ph = "stats" THEN RejectFrame(K, op.node, e) ELSE K

\* op has completed; a failure is also noted in the history
Drop(K, op) == [K EXCEPT !.ops = @ \ {op}]
Failed(K, op, e) ==
  [K EXCEPT !.ops = @ \ {op},
            !.fails = Append(@, [kind |-> op.kind, why |-> op.why, node |-> op.node,
                                 name |-> op.name, err |-> e])]

\* if (!children.length) return;
ReturnsOnEmptyNever(l) == FALSE
ReturnsOnEmpty(l) == Len(l) = 0

-----------------------------------------------------------------------------
(* The tree queries: the positions of the nodes whose path each one clones *)

HasNoChildren(node) ==
  ~node.hasChildren \/ Len(node.children) = 0

RECURSIVE TreeFlatten(_, _)
RECURSIVE FlattenEach(_, _)
TreeFlatten(K, n) ==
  LET node == K.nodes[n] IN
  IF ~node.isDirectory \/ HasNoChildren(node) THEN <<n>>
  ELSE <<n>> \o FlattenEach(K, node.children)
FlattenEach(K, ids) ==
  IF ids = <<>> THEN <<>>
  ELSE TreeFlatten(K, Head(ids)) \o FlattenEach(K, Tail(ids))

RECURSIVE TreeFiles(_, _)
RECURSIVE FilesEach(_, _)
TreeFilesWithEmpty(K, n) ==
  LET node == K.nodes[n] IN
  IF ~node.isDirectory \/ HasNoChildren(node) THEN <<n>>
  ELSE FilesEach(K, node.children)
TreeFiles(K, n) ==
  LET node == K.nodes[n] IN
  IF ~node.isDirectory THEN <<n>>
  ELSE IF HasNoChildren(node) THEN <<>>
  ELSE FilesEach(K, node.children)
FilesEach(K, ids) ==
  IF ids = <<>> THEN <<>>
  ELSE TreeFiles(K, Head(ids)) \o FilesEach(K, Tail(ids))

RECURSIVE TreeDirectories(_, _)
RECURSIVE DirectoriesEach(_, _)
TreeDirectoriesWithEmpty(K, n) ==
  LET node == K.nodes[n] IN
  IF ~node.isDirectory THEN <<>>
  ELSE IF HasNoChildren(node) THEN <<n>>
  ELSE <<n>> \o DirectoriesEach(K, node.children)
TreeDirectories(K, n) ==
  LET node == K.nodes[n] IN
  IF ~node.isDirectory \/ HasNoChildren(node) THEN <<>>
  ELSE <<n>> \o DirectoriesEach(K, node.children)
DirectoriesEach(K, ids) ==
  IF ids = <<>> THEN <<>>
  ELSE TreeDirectories(K, Head(ids)) \o DirectoriesEach(K, Tail(ids))

NoQ == [ran |-> {}, flatten |-> <<>>, files |-> <<>>, directories |-> <<>>]

\* node.path.clone() for every position of ids: fresh Path instances
Clones(K, c, fn, ids) ==
  [r \in {CloneRef(c, fn, ids[i]) : i \in 1..Len(ids)} |-> heap[K.nodes[r.id].path]]

-----------------------------------------------------------------------------
(* The walker *)

Init ==
  /\ cwd = <<Sep>>
  /\ pa = <<>>
  /\ pb = <<>>
  /\ pOut = NoOut
  /\ fs \in FileSystems
  /\ heap \in {ArgRef :> s : s \in RootStrs}
  /\ callers = {1}
  /\ call = [c \in Calls |-> IdleCall]
  /\ faults = 0
  /\ q = [c \in Calls |-> NoQ]

\* FS.tree(path) is called, with the caller's Path instance or with its string
TreeCall(c, byInstance) ==
  /\ call[c].st = "idle"
  /\ LET ref == IF byInstance THEN ArgRef ELSE NodeRef(c, <<>>)
         h == IF byInstance THEN heap ELSE (ref :> heap[ArgRef]) @@ heap
     IN /\ heap' = h
        /\ call' = [call EXCEPT ![c] =
             Issue([@ EXCEPT !.st = "pending", !.rootRef = ref],
                   {Op("access", "tree", <<>>, <<>>, Absolute(h[ref], cwd))})]
  /\ UNCHANGED <<pathVars, fs, callers, faults, q>>

\* nfs.access resolves: FS.stat goes on to nfs.stat
AccessOk(c, op) ==
  /\ op.kind = "access"
  /\ Exists(op.abs)
  /\ call' = [call EXCEPT ![c] = Issue(Drop(@, op), {[op EXCEPT !.kind = "stat"]})]
  /\ UNCHANGED <<pathVars, fs, heap, callers, faults, q>>

\* nfs.access rejects (no such entry, or made to fail): FS.stat throws
AccessFail(c, op) ==
  /\ op.kind = "access"
  /\ \/ ~Exists(op.abs) /\ faults' = faults
     \/ Exists(op.abs) /\ faults < MaxFaults /\ faults' = faults + 1
  /\ call' = [call EXCEPT ![c] = FailOp(Failed(@, op, NotAccessible(op.abs)), op, NotAccessible(op.abs))]
  /\ UNCHANGED <<pathVars, fs, heap, callers, q>>

\* nfs.stat resolves, and what awaited the FS.stat goes on
StatOk(c, op) ==
  /\ op.kind = "stat"
  /\ Exists(op.abs)
  /\ LET K == Drop(call[c], op)
         isDirectory == KindAt(op.abs) = "dir"
         n == op.node
     IN call' = [call EXCEPT ![c] =
          CASE op.why = "tree" ->
                 LET K1 == [K EXCEPT !.nodes = (<<>> :> NewNode(K.rootRef, isDirectory))]
                 IN IF isDirectory THEN StartResolve(K1, {<<>>})
                    ELSE [K1 EXCEPT !.st = "fulfilled"]
            [] op.why = "ls" ->
                 IF ~isDirectory
                   THEN RejectFrame(K, n, NotADirectory(Absolute(heap[K.nodes[n].path], cwd)))
                 ELSE Issue(K, {Op("readdir", "ls", n, <<>>,
                                   Absolute(heap[K.nodes[n].path], cwd))})
            [] op.why = "child" ->
                 IF K.frames[n].ph # "stats" THEN K
                 ELSE LET K1 == [K EXCEPT
                                   !.frames[n].stats = (op.name :> KindAt(op.abs)) @@ @,
                                   !.frames[n].done = Append(@, op.name)]
                      IN IF Len(K1.frames[n].done) = Len(K1.frames[n].kids)
                           THEN StatsDone(K1, c, n)
                         ELSE K1]
  /\ UNCHANGED <<pathVars, fs, heap, callers, faults, q>>

\* nfs.stat is made to fail: FS.stat rejects with that error
StatFail(c, op) ==
  /\ op.kind = "stat"
  /\ faults < MaxFaults
  /\ faults' = faults + 1
  /\ call' = [call EXCEPT ![c] = FailOp(Failed(@, op, StatError(op.abs)), op, StatError(op.abs))]
  /\ UNCHANGED <<pathVars, fs, heap, callers, q>>

\* the children whose FS.stat has been called when _resolveChildren first
\* awaits: the loop calls it for every child and awaits none
StatsIssuedOneByOne(l) == IF Len(l) = 0 THEN {} ELSE {1}
StatsIssued(l) == 1..Len(l)

\* FS.ls: a new Path per listed name, the directory's path joined with the name
RECURSIVE LsPaths(_, _, _, _)
LsPaths(c, n, parent, l) ==
  IF l = <<>> THEN <<>>
  ELSE (NodeRef(c, Append(n, Head(l))) :> NJoin(parent, Head(l)))
         @@ LsPaths(c, n, parent, Tail(l))

\* nfs.readdir resolves with the names in the order l: FS.ls builds the child
\* paths, _resolveChildren returns on an empty listing and otherwise calls
\* FS.stat on every child
ReaddirOk(c, op, l) ==
  /\ op.kind = "readdir"
  /\ Exists(op.abs)
  /\ KindAt(op.abs) = "dir"
  /\ l \in Listings(ChildNames(op.abs))
  /\ LET n == op.node
         K == [Drop(call[c], op) EXCEPT !.listed = (n :> l) @@ @]
         parent == heap[K.nodes[n].path]
         sub == LsPaths(c, n, parent, l)
     IN /\ heap' = sub @@ heap
        /\ call' = [call EXCEPT ![c] =
             IF ReturnsOnEmpty(l) THEN ResolveFrame(K, n)
             ELSE LET K1 == Issue([K EXCEPT !.frames[n].kids = l,
                                            !.frames[n].ph = "stats"],
                                  {Op("access", "child", n, l[i],
                                      Absolute(sub[NodeRef(c, Append(n, l[i]))], cwd)) :
                                     i \in StatsIssued(l)})
                  \* Promise.all of no promises fulfils at once
                  IN IF Len(l) = 0 THEN StatsDone(K1, c, n) ELSE K1]
  /\ UNCHANGED <<pathVars, fs, callers, faults, q>>

\* nfs.readdir is made to fail: FS.ls rejects with that error
ReaddirFail(c, op) ==
  /\ op.kind = "readdir"
  /\ faults < MaxFaults
  /\ faults' = faults + 1
  /\ call' = [call EXCEPT ![c] = FailOp(Failed(@, op, ReaddirError(op.abs)), op, ReaddirError(op.abs))]
  /\ UNCHANGED <<pathVars, fs, heap, callers, q>>

\* the caller applies FS.tree.flatten to the node FS.tree returned
QueryFlatten(c) ==
  /\ call[c].st = "fulfilled"
  /\ LET ids == TreeFlatten(call[c], <<>>) IN
     /\ heap' = Clones(call[c], c, "flatten", ids) @@ heap
     /\ q' = [q EXCEPT ![c].ran = @ \cup {"flatten"},
                       ![c].flatten = [i \in 1..Len(ids) |-> CloneRef(c, "flatten", ids[i])]]
  /\ UNCHANGED <<pathVars, fs, callers, call, faults>>

\* the caller applies FS.tree.files to the node FS.tree returned
QueryFiles(c) ==
  /\ call[c].st = "fulfilled"
  /\ LET ids == TreeFiles(call[c], <<>>) IN
     /\ heap' = Clones(call[c], c, "files", ids) @@ heap
     /\ q' = [q EXCEPT ![c].ran = @ \cup {"files"},
                       ![c].files = [i \in 1..Len(ids) |-> CloneRef(c, "files", ids[i])]]
  /\ UNCHANGED <<pathVars, fs, callers, call, faults>>

\* the caller applies FS.tree.directories to the node FS.tree returned
QueryDirectories(c) ==
  /\ call[c].st = "fulfilled"
  /\ LET ids == TreeDirectories(call[c], <<>>) IN
     /\ heap' = Clones(call[c], c, "directories", ids) @@ heap
     /\ q' = [q EXCEPT ![c].ran = @ \cup {"directories"},
                       ![c].directories =
                          [i \in 1..Len(ids) |-> CloneRef(c, "directories", ids[i])]]
  /\ UNCHANGED <<pathVars, fs, callers, call, faults>>

\* FS.tree and the Storage completions that drive it
Walk ==
  \/ \E c \in callers : TreeCall(c, TRUE)
  \/ \E c \in callers : TreeCall(c, FALSE)
  \/ \E c \in callers : \E op \in call[c].ops : AccessOk(c, op)
  \/ \E c \in callers : \E op \in call[c].ops : AccessFail(c, op)
  \/ \E c \in callers : \E op \in call[c].ops : StatOk(c, op)
  \/ \E c \in callers : \E op \in call[c].ops : StatFail(c, op)
  \/ \E c \in callers : \E op \in call[c].ops :
        \E l \in Listings(ChildNames(op.abs)) : ReaddirOk(c, op, l)
  \/ \E c \in callers : \E op \in call[c].ops : ReaddirFail(c, op)

\* the queries on a returned tree
Queries ==
  \/ \E c \in callers : QueryFlatten(c)
  \/ \E c \in callers : QueryFiles(c)
  \/ \E c \in callers : QueryDirectories(c)

Next == Walk \/ Queries

Spec == Init /\ [][Next]_vars

-----------------------------------------------------------------------------
(* Two FS.tree calls side by side, by a caller that keeps using the Path   *)
(* instance it holds                                                       *)

InitShared ==
  /\ cwd = <<Sep>>
  /\ pa = <<>>
  /\ pb = <<>>
  /\ pOut = NoOut
  /\ fs \in {f \in FileSystems : Cardinality(DOMAIN f) <= MaxSharedEntries + 1}
  /\ heap \in {ArgRef :> s : s \in RootStrs}
  /\ callers = {1, 2}
  /\ call = [c \in Calls |-> IdleCall]
  /\ faults = 0
  /\ q = [c \in Calls |-> NoQ]

Quiet == \A c \in callers : call[c].st \in {"fulfilled", "rejected"} /\ call[c].ops = {}

\* Path.append on the caller's instance, once its calls have settled
ArgAppend(nm) ==
  /\ Quiet
  /\ Len(heap[ArgRef]) + 1 + Len(nm) <= MaxArgLen
  /\ heap' = [heap EXCEPT ![ArgRef] = NJoin(@, nm)]
  /\ UNCHANGED <<pathVars, fs, callers, call, faults, q>>

NextShared ==
  \/ Walk
  \/ \E nm \in Names : ArgAppend(nm)

SpecShared == InitShared /\ [][NextShared]_vars

-----------------------------------------------------------------------------
(* Properties of the walker and its queries *)

SeqSet(s) == {s[i] : i \in 1..Len(s)}
NoDup(s) == \A i, j \in 1..Len(s) : s[i] = s[j] => i = j
PathsOf(refs) == [i \in 1..Len(refs) |-> heap[refs[i]]]
AbsOf(refs) == [i \in 1..Len(refs) |-> Absolute(heap[refs[i]], cwd)]
IdsOf(refs) == [i \in 1..Len(refs) |-> refs[i].id]
ChildNamesOf(node) ==
  IF node.hasChildren THEN [i \in 1..Len(node.children) |-> Last(node.children[i])]
  ELSE <<>>

\* the tree of call K mirrors Storage: a node per entry, reachable from the
\* root, of the entry's kind, named by the entry's path, with all its children
Complete(K) ==
  /\ DOMAIN K.nodes = DOMAIN fs
  /\ SeqSet(TreeFlatten(K, <<>>)) = DOMAIN fs
  /\ \A n \in DOMAIN K.nodes :
       /\ K.nodes[n].isDirectory = (fs[n] = "dir")
       /\ Absolute(heap[K.nodes[n].path], cwd) = EntryAbs(n)
       /\ SeqSet(ChildNamesOf(K.nodes[n])) = ChildNames(EntryAbs(n))

\* C1: with no Storage failure, flatten of the tree FS.tree returned yields
\* exactly N + 1 paths for a subtree of N entries below the root: one per
\* entry and the root, none twice
C1_TreeCompleteness ==
  \A c \in callers :
    ("flatten" \in q[c].ran /\ call[c].fails = <<>>) =>
      /\ Len(q[c].flatten) = (Cardinality(DOMAIN fs) - 1) + 1
      /\ NoDup(PathsOf(q[c].flatten))
      /\ NoDup(AbsOf(q[c].flatten))
      /\ SeqSet(AbsOf(q[c].flatten)) = {EntryAbs(e) : e \in DOMAIN fs}

C1_Witness ==
  /\ "flatten" \in q[1].ran
  /\ Len(q[1].flatten) >= 4
  /\ \E e \in DOMAIN fs : Len(e) = 2

\* the first Storage failure of call c is in the FS.stat of a direct child of
\* the root
ChildStatFailedFirst(c) ==
  /\ call[c].fails # <<>>
  /\ call[c].fails[1].why = "child"
  /\ call[c].fails[1].node = <<>>

\* C2 (as stated): when the stat call of a child of the root directory fails,
\* FS.tree rejects with the NotAccessible error and the caller gets no tree
C2_FailFastNotAccessible ==
  \A c \in callers :
    ChildStatFailedFirst(c) =>
      /\ call[c].st = "rejected"
      /\ call[c].err.type = "NotAccessible"

\* C2 (amended): when the FS.stat call of a child of the root directory fails,
\* FS.tree rejects with that call's error (NotAccessible when the existence
\* check failed, the error of nfs.stat when nfs.stat itself failed) and the
\* caller gets no tree
C2_FailFastChildError ==
  \A c \in callers :
    ChildStatFailedFirst(c) =>
      LET f == call[c].fails[1] IN
      /\ call[c].st = "rejected"
      /\ q[c].ran = {}
      /\ call[c].err = f.err
      /\ call[c].err.path = EntryAbs(<<f.name>>)
      /\ call[c].err.type = (IF f.kind = "access" THEN "NotAccessible" ELSE "StatError")

C2_Witness ==
  /\ ChildStatFailedFirst(1)
  /\ call[1].fails[1].kind = "stat"
  /\ Len(call[1].frames[<<>>].kids) = 2
  /\ call[1].ops = {}

\* the root holds exactly the file x and the empty directory y
ScenarioFs ==
  /\ DOMAIN fs = {<<>>, << <<"x">> >>, << <<"y">> >>}
  /\ fs[<<>>] = "dir"
  /\ fs[<< <<"x">> >>] = "file"
  /\ fs[<< <<"y">> >>] = "dir"

\* C3 (as stated): for a root holding one file and one empty directory,
\* directories of the returned tree yields the empty sequence
C3_ScenarioDirectoriesEmpty ==
  \A c \in callers :
    (ScenarioFs /\ "directories" \in q[c].ran) => q[c].directories = <<>>

\* C3 (amended): for a root holding one file and one empty directory,
\* directories of the returned tree yields exactly the root's path: the root
\* is emitted because it has children, the empty directory is not emitted
C3_ScenarioDirectoriesRoot ==
  \A c \in callers :
    (ScenarioFs /\ "directories" \in q[c].ran) =>
      /\ IdsOf(q[c].directories) = << <<>> >>
      /\ PathsOf(q[c].directories) = <<heap[call[c].rootRef]>>
      /\ AbsOf(q[c].directories) = <<RootAbs>>

C3_Witness ==
  /\ ScenarioFs
  /\ "directories" \in q[1].ran
  /\ Len(call[1].nodes[<<>>].children) = 2

\* C4: files yields exactly the non-directory nodes of the returned tree, once
\* each; directories yields exactly the directory nodes with at least one
\* child, once each; no path is yielded by both
C4_FilesDirectoriesPartition ==
  \A c \in callers :
    LET K == call[c] IN
    /\ "files" \in q[c].ran =>
         /\ NoDup(IdsOf(q[c].files))
         /\ SeqSet(IdsOf(q[c].files)) = {n \in DOMAIN K.nodes : ~K.nodes[n].isDirectory}
         /\ \A i \in 1..Len(q[c].files) :
              /\ heap[q[c].files[i]] = heap[K.nodes[q[c].files[i].id].path]
              /\ fs[q[c].files[i].id] = "file"
    /\ "directories" \in q[c].ran =>
         /\ NoDup(IdsOf(q[c].directories))
         /\ SeqSet(IdsOf(q[c].directories)) =
              {n \in DOMAIN K.nodes :
                 /\ K.nodes[n].isDirectory
                 /\ K.nodes[n].hasChildren
                 /\ Len(K.nodes[n].children) >= 1}
         /\ \A i \in 1..Len(q[c].directories) :
              /\ heap[q[c].directories[i]] = heap[K.nodes[q[c].directories[i].id].path]
              /\ ChildNames(EntryAbs(q[c].directories[i].id)) # {}
    /\ {"files", "directories"} \subseteq q[c].ran =>
         SeqSet(PathsOf(q[c].files)) \cap SeqSet(PathsOf(q[c].directories)) = {}

C4_Witness ==
  /\ {"files", "directories"} \subseteq q[1].ran
  /\ Len(q[1].files) >= 1
  /\ Len(q[1].directories) >= 2
  /\ \E n \in DOMAIN call[1].nodes :
       call[1].nodes[n].isDirectory /\ ~call[1].nodes[n].hasChildren

\* C5: in a returned tree the children of every directory node are in the
\* order in which readdir returned the names, whatever order the child stats
\* and recursions completed in
C5_ChildrenInListingOrder ==
  \A c \in callers :
    call[c].st = "fulfilled" =>
      \A n \in DOMAIN call[c].nodes :
        call[c].nodes[n].isDirectory =>
          /\ n \in DOMAIN call[c].listed
          /\ ChildNamesOf(call[c].nodes[n]) = call[c].listed[n]

C5_Witness ==
  /\ call[1].st = "fulfilled"
  /\ \E n \in DOMAIN call[1].frames :
       /\ Len(call[1].frames[n].kids) = 2
       /\ call[1].frames[n].done # call[1].frames[n].kids
       /\ call[1].nodes[n].hasChildren

\* C6: in a returned tree a non-directory node has no children field, a
\* directory node whose listing was empty has none either, and a children
\* field, when present, is a non-empty sequence on a directory node
C6_ChildrenFieldShape ==
  \A c \in callers :
    call[c].st = "fulfilled" =>
      \A n \in DOMAIN call[c].nodes :
        LET node == call[c].nodes[n] IN
        /\ ~node.isDirectory => ~node.hasChildren
        /\ (node.isDirectory /\ call[c].listed[n] = <<>>) => ~node.hasChildren
        /\ node.hasChildren => (node.isDirectory /\ Len(node.children) >= 1)

C6_Witness ==
  /\ call[1].st = "fulfilled"
  /\ \E n \in DOMAIN call[1].nodes : ~call[1].nodes[n].isDirectory
  /\ \E n \in DOMAIN call[1].nodes :
       call[1].nodes[n].isDirectory /\ call[1].listed[n] = <<>>
  /\ \E n \in DOMAIN call[1].nodes : n # <<>> /\ call[1].nodes[n].hasChildren

\* C7: a Storage failure (existence check, stat or listing) at any depth makes
\* the FS.tree call reject with the error of the first failure, and a call
\* that fulfils saw no failure and returns the complete tree
C7_FailureRejectsWholeCall ==
  \A c \in callers :
    /\ call[c].fails # <<>> =>
         /\ call[c].st = "rejected"
         /\ call[c].err = call[c].fails[1].err
    /\ call[c].st = "rejected" => call[c].fails # <<>>
    /\ call[c].st = "fulfilled" => (call[c].fails = <<>> /\ Complete(call[c]))

C7_Witness ==
  /\ call[1].st = "rejected"
  /\ call[1].fails[1].node # <<>>
  /\ call[1].fails[1].kind = "readdir"
  /\ \E n \in DOMAIN call[1].nodes : Len(n) = 1 /\ call[1].nodes[n].hasChildren

PathRefs(K) == {K.nodes[n].path : n \in DOMAIN K.nodes}

\* C8: the trees returned by two FS.tree calls share no Path instance with
\* each other or with the caller, so that a path changed through one owner
\* still names its entry in the other tree
C8_NoSharedState ==
  \A c, d \in callers :
    (c # d /\ call[c].st = "fulfilled" /\ call[d].st = "fulfilled") =>
      /\ PathRefs(call[c]) \cap PathRefs(call[d]) = {}
      /\ ArgRef \notin PathRefs(call[c])
      /\ \A n \in DOMAIN call[c].nodes :
           Absolute(heap[call[c].nodes[n].path], cwd) = EntryAbs(n)

SegNames == {<<"a">>, <<"b">>, <<Dot, "a">>, <<"a", "b">>}

\* C9: p.inside(p) is false for every path p, and c.inside(p) is true for
\* every path p, the filesystem root included, and every direct child c of p
C9_Containment ==
  pOut.op = "inside" =>
    /\ pa = pb => pOut.val = FALSE
    /\ (\E nm \in SegNames : pa = NJoin(pb, nm)) => pOut.val = TRUE

\* C10: relativeTo strips other's absolute form and one separator when that
\* is a prefix of this path's absolute form, and returns this path's absolute
\* form unchanged when other's absolute form is not a prefix of it
C10_RelativeToPrefixOnly ==
  pOut.op = "relativeTo" =>
    LET iAbs == Absolute(pb, cwd)
        tAbs == Absolute(pa, cwd)
    IN /\ StartsWith(tAbs, Append(iAbs, Sep)) =>
            pOut.val = SubSeq(tAbs, Len(iAbs) + 2, Len(tAbs))
       /\ ~StartsWith(tAbs, iAbs) => pOut.val = tAbs

-----------------------------------------------------------------------------
(* Termination: every Storage operation that was started completes, so a   *)
(* step of the walker that stays possible is eventually taken              *)

\* a step of the walker is possible: a call is still to be made, or a Storage
\* operation is outstanding (an outstanding operation can always complete)
CanStep ==
  \E c \in callers : call[c].st = "idle" \/ call[c].ops # {}

\* weak fairness of the walker, WF_vars(Walk), with ENABLED <<Walk>>_vars
\* written out as CanStep
WalkFairness == (<>[]CanStep) => ([]<><<Walk>>_vars)

\* the caller names the walked root by its absolute path
InitLive == Init /\ heap[ArgRef] = RootAbs

SpecLive == InitLive /\ [][Walk]_vars /\ WalkFairness

Settled(c) == call[c].st \in {"fulfilled", "rejected"}

\* C11: every FS.tree call eventually settles, and settles once: a call that
\* is pending is later fulfilled with a node or rejected with an error, and a
\* settled call keeps its outcome (its state, its error, its root node)
C11_SettlesExactlyOnce ==
  /\ \A c \in Calls : (call[c].st = "pending") ~> Settled(c)
  /\ [][\A c \in Calls :
          Settled(c) =>
            /\ call'[c].st = call[c].st
            /\ call'[c].err = call[c].err
            /\ call'[c].rootRef = call[c].rootRef]_vars

\* a call rejected by the failure of one child stat while the stat of a
\* sibling is still outstanding
C11_Witness ==
  /\ call[1].st = "rejected"
  /\ call[1].ops # {}
  /\ call[1].fails # <<>>
  /\ call[1].fails[1].why = "child"

-----------------------------------------------------------------------------
(* The order of the Storage operations of one call *)

\* the operations of call K still outstanding for node n: those of FS.ls(n)
\* and the stats of the children of n
OpsOf(K, n) == {op \in K.ops : op.node = n}

\* the resolution of node n has completed: a non-directory returns at once, a
\* directory when its _resolveChildren promise has fulfilled
Resolved(K, n) ==
  K.nodes[n].isDirectory =>
    /\ n \in DOMAIN K.frames
    /\ K.frames[n].ph = "resolved"
    /\ OpsOf(K, n) = {}

\* C12: the children field of a directory node is assigned only after the
\* stat of every one of its children and the resolution of every one of its
\* children have completed, and when FS.tree fulfils the tree is fully built
\* and no Storage operation the call started is outstanding
C12_LevelBarrier ==
  \A c \in callers :
    LET K == call[c] IN
    /\ \A n \in DOMAIN K.nodes :
         K.nodes[n].hasChildren =>
           LET f == K.frames[n] IN
           /\ K.nodes[n].children = f.childNodes
           /\ SeqSet(f.done) = SeqSet(f.kids)
           /\ \A op \in OpsOf(K, n) : op.why # "child"
           /\ \A i \in 1..Len(f.childNodes) :
                /\ f.childNodes[i] \in DOMAIN K.nodes
                /\ Resolved(K, f.childNodes[i])
    /\ K.st = "fulfilled" =>
         /\ K.ops = {}
         /\ \A n \in DOMAIN K.nodes :
              /\ Resolved(K, n)
              /\ K.nodes[n].isDirectory =>
                   /\ n \in DOMAIN K.listed
                   /\ ChildNamesOf(K.nodes[n]) = K.listed[n]

\* a call fulfilled with a tree two levels deep, two directories inside the
\* root having been resolved side by side
C12_Witness ==
  /\ call[1].st = "fulfilled"
  /\ \E n \in DOMAIN call[1].nodes : Len(n) = 2
  /\ Cardinality({n \in DOMAIN call[1].nodes :
                    Len(n) = 1 /\ call[1].nodes[n].isDirectory}) = 2

\* the children of node n whose stat is outstanding in call K
StatsOutstanding(K, n) == {op.name : op \in {o \in OpsOf(K, n) : o.why = "child"}}

\* C13: within one directory level the stat of every child is issued before
\* any of them is awaited: while the level waits for its stats, every child
\* whose stat has not completed has its stat outstanding, so right after a
\* listing of k children k child stats are outstanding at once
C13_ChildStatsConcurrent ==
  \A c \in callers :
    \A n \in DOMAIN call[c].frames :
      LET f == call[c].frames[n] IN
      f.ph = "stats" =>
        /\ StatsOutstanding(call[c], n) = SeqSet(f.kids) \ SeqSet(f.done)
        /\ Cardinality(StatsOutstanding(call[c], n)) = Len(f.kids) - Len(f.done)

\* a directory of two children right after its listing: both stats outstanding
C13_Witness ==
  \E n \in DOMAIN call[1].frames :
    LET f == call[1].frames[n] IN
    /\ f.ph = "stats"
    /\ Len(f.kids) = 2
    /\ f.done = <<>>
    /\ Cardinality(StatsOutstanding(call[1], n)) = 2

IsPrefix(n, m) == Len(n) <= Len(m) /\ SubSeq(m, 1, Len(n)) = n

\* the positions below node n for which call K has done anything: a listing
\* obtained, a resolution entered, a Storage operation outstanding or failed
Below(K, n) ==
  {m \in DOMAIN K.listed \cup DOMAIN K.frames \cup {op.node : op \in K.ops}
           \cup {K.fails[i].node : i \in 1..Len(K.fails)} :
     Len(m) > Len(n) /\ IsPrefix(n, m)}

ChildStatFailed(K, n) ==
  \E i \in 1..Len(K.fails) : K.fails[i].why = "child" /\ K.fails[i].node = n

\* C14: for every directory D, nothing is listed or statted in a child
\* directory of D until the stats of all children of D have completed
\* successfully, and when the stat of one child of D fails no recursion into
\* any child of D is started
C14_StatsBeforeRecursion ==
  \A c \in callers :
    \A n \in DOMAIN call[c].frames :
      LET K == call[c]
          f == K.frames[n]
      IN /\ Below(K, n) # {} =>
              /\ SeqSet(f.done) = SeqSet(f.kids)
              /\ DOMAIN f.stats = SeqSet(f.kids)
              /\ StatsOutstanding(K, n) = {}
              /\ ~ChildStatFailed(K, n)
         /\ ChildStatFailed(K, n) =>
              /\ Below(K, n) = {}
              /\ \A nm \in SeqSet(f.kids) : Append(n, nm) \notin DOMAIN K.nodes

\* the stat of one child of the root has failed while the root has a child
\* directory whose stat succeeded
C14_Witness ==
  /\ ChildStatFailed(call[1], <<>>)
  /\ \E nm \in SeqSet(call[1].frames[<<>>].done) :
       call[1].frames[<<>>].stats[nm] = "dir"

\* how many Storage operations of one kind call K has started on a path
Issued(K, kind, abs) ==
  IF <<kind, abs>> \in DOMAIN K.issued THEN K.issued[<<kind, abs>>] ELSE 0

\* C15: over one FS.tree call on an unchanging filesystem the existence
\* check and the stat are issued exactly once per entry below the root, and
\* not a second time for a child directory before its listing
C15_ExistenceCheckedOnce ==
  \A c \in callers :
    LET K == call[c] IN
    /\ \A e \in DOMAIN fs \ {<<>>} :
         /\ Issued(K, "access", EntryAbs(e)) <= 1
         /\ Issued(K, "stat", EntryAbs(e)) <= 1
    /\ (K.st = "fulfilled" /\ K.fails = <<>>) =>
         \A e \in DOMAIN fs \ {<<>>} :
           /\ Issued(K, "access", EntryAbs(e)) = 1
           /\ Issued(K, "stat", EntryAbs(e)) = 1

\* C16: recursion is entered for every child of a directory, files included,
\* yet FS.tree on an unchanging filesystem never calls FS.ls on, and never
\* issues a Storage listing for, an entry whose stat reported a non-directory,
\* and so never fails with the 'ls on a non-directory' error
C16_NoListingOfFiles ==
  \A c \in callers :
    LET K == call[c] IN
    /\ \A op \in K.ops : op.why = "ls" => (Exists(op.abs) /\ KindAt(op.abs) = "dir")
    /\ \A n \in DOMAIN K.frames : K.nodes[n].isDirectory
    /\ \A e \in DOMAIN fs : fs[e] = "file" => Issued(K, "readdir", EntryAbs(e)) = 0
    /\ \A i \in 1..Len(K.fails) : K.fails[i].err.type # "NotADirectory"
    /\ K.err.type # "NotADirectory"

\* a directory's children have been resolved, a file among them, beside a
\* directory that was listed
C16_Witness ==
  \E n \in DOMAIN call[1].nodes :
    /\ call[1].nodes[n].hasChildren
    /\ \E i, j \in 1..Len(call[1].nodes[n].children) :
         /\ ~call[1].nodes[call[1].nodes[n].children[i]].isDirectory
         /\ call[1].nodes[n].children[j] \in DOMAIN call[1].listed

-----------------------------------------------------------------------------
(* The caller composes on the Path instances that the queries returned *)

\* npath.basename: the last segment, separators at the end left out
Basename(s) ==
  LET segs == SelectSeq(Segments(s), LAMBDA g : g # <<>>) IN
  IF segs = <<>> THEN <<>> ELSE Last(segs)

\* String.prototype.replace(new RegExp("[/\\\\]{0,1}" + basename + "$"), "")
Pop(s) ==
  LET b == Basename(s)
      i == Len(s) - Len(b)
  IN IF i < 0 \/ \E k \in 1..Len(b) : ~PatCharMatches(b[k], s[i + k]) THEN s
     ELSE IF i >= 1 /\ s[i] \in {Sep, BSep} THEN SubSeq(s, 1, i - 1)
     ELSE SubSeq(s, 1, i)

\* String.prototype.replace(what, with) for a string what: its first
\* occurrence in s is replaced
ReplaceString(s, what, with) ==
  LET hits == {i \in 1..(Len(s) - Len(what) + 1) : SubSeq(s, i, i + Len(what) - 1) = what} IN
  IF hits = {} THEN s
  ELSE LET i == CHOOSE j \in hits : \A k \in hits : j <= k
       IN SubSeq(s, 1, i - 1) \o with \o SubSeq(s, i + Len(what), Len(s))

InitCompose ==
  /\ cwd = <<Sep>>
  /\ pa = <<>>
  /\ pb = <<>>
  /\ pOut = NoOut
  /\ fs \in {f \in FileSystems : Cardinality(DOMAIN f) <= MaxComposeEntries + 1}
  /\ heap \in {ArgRef :> s : s \in RootStrs}
  /\ callers = {1}
  /\ call = [c \in Calls |-> IdleCall]
  /\ faults = 0
  /\ q = [c \in Calls |-> NoQ]

\* the Path instances the queries on the tree of call c have returned
Returned(c) ==
  SeqSet(q[c].flatten) \cup SeqSet(q[c].files) \cup SeqSet(q[c].directories)

\* the returned instances whose _path the caller has changed
Composed(c) ==
  {r \in Returned(c) : heap[r] # heap[call[c].nodes[r.id].path]}

\* the caller sets the _path of the returned instance r to t; it works on one
\* returned instance at a time (the instances are separate objects)
Compose(c, r, t) ==
  /\ r \in Returned(c)
  /\ Composed(c) \subseteq {r}
  /\ Len(t) <= MaxCloneLen
  /\ heap' = [heap EXCEPT ![r] = t]
  /\ UNCHANGED <<pathVars, fs, callers, call, faults, q>>

\* Path.append, Path.prepend, Path.pop, Path.replace on a returned instance
CloneAppend(c, r, nm) == Compose(c, r, NJoin(heap[r], nm))
ClonePrepend(c, r, nm) == Compose(c, r, NJoin(nm, heap[r]))
ClonePop(c, r) == Compose(c, r, Pop(heap[r]))
CloneReplace(c, r, what, with) == Compose(c, r, ReplaceString(heap[r], what, with))

NextCompose ==
  \/ Walk
  \/ Queries
  \/ \E c \in callers : \E r \in Returned(c) : \E nm \in Names : CloneAppend(c, r, nm)
  \/ \E c \in callers : \E r \in Returned(c) : \E nm \in Names : ClonePrepend(c, r, nm)
  \/ \E c \in callers : \E r \in Returned(c) : ClonePop(c, r)
  \/ \E c \in callers : \E r \in Returned(c) :
        \E what, with \in Names : CloneReplace(c, r, what, with)

SpecCompose == InitCompose /\ [][NextCompose]_vars

\* the _path FS.tree gave to the node at position n: the caller's string for
\* the root, the directory's _path joined with the name for an entry in it
RECURSIVE OriginalPath(_)
OriginalPath(n) ==
  IF n = <<>> THEN heap[ArgRef]
  ELSE NJoin(OriginalPath(Front(n)), Last(n))

\* C17: the tree queries leave the tree as it is and return Path instances of
\* their own: whatever the caller composes on the returned instances, every
\* node.path still holds its original string, the tree is still the fully
\* built one, and each query run again yields the original sequence
C17_QueriesLeaveTreeUnchanged ==
  \A c \in callers :
    LET K == call[c] IN
    q[c].ran # {} =>
      /\ Returned(c) \cap (PathRefs(K) \cup {ArgRef}) = {}
      /\ \A n \in DOMAIN K.nodes : heap[K.nodes[n].path] = OriginalPath(n)
      /\ Complete(K)
      /\ "flatten" \in q[c].ran => IdsOf(q[c].flatten) = TreeFlatten(K, <<>>)
      /\ "files" \in q[c].ran => IdsOf(q[c].files) = TreeFiles(K, <<>>)
      /\ "directories" \in q[c].ran => IdsOf(q[c].directories) = TreeDirectories(K, <<>>)

\* the caller has changed a returned instance of a node below the root, while
\* the instances that flatten returned are as flatten returned them
C17_Witness ==
  /\ \E r \in Composed(1) : r.id # <<>>
  /\ "flatten" \in q[1].ran
  /\ \A i \in 1..Len(q[1].flatten) : q[1].flatten[i] \notin Composed(1)

====
